---- MODULE Spec2Model ----
(***************************************************************************)
(* The PR-REVIEWER workflow declared by ReviewBotStepFunctions             *)
(* (src/lib/constructs/step-functions.ts): the state graph built from the  *)
(* task, Map, Pass, Choice, Parallel, Succeed and Fail states, their       *)
(* retriers and catchers, and the paths that carry data between them.      *)
(*                                                                         *)
(* The Lambda functions behind the tasks are not part of the construct:    *)
(* every invocation either returns a response or raises an error, chosen   *)
(* nondeterministically from small sets.                                   *)
(***************************************************************************)
EXTENDS Integers, Sequences, FiniteSets

\* ---------------------------------------------------------------- bounds
\* Largest $.body.total_files the Split response carries in the model.
MaxFiles == 6
\* Largest number of entries of $.body.chunks in the model.
MaxChunks == 4
\* Minutes by which the clock of an execution advances in one step.
ClockStep == 10

\* ------------------------------------------------------ program constants
\* ChunkSizeCheck: numberGreaterThan('$.body.total_files', 5)
ChunkSizeThreshold == 5
\* status the Choice states compare with: numberEquals(..., 200), statusCode == 200
StatusOK == 200
\* defaultRetry.maxAttempts
DefaultMaxAttempts == 2
\* processChunk.addRetry({ maxAttempts: 3 })
ProcessChunkMaxAttempts == 3
\* retryOnServiceExceptions: true adds a retrier for the Lambda service
\* exceptions with 6 attempts, placed before the retriers added by addRetry
ServiceMaxAttempts == 6
\* ProcessChunks: maxConcurrency
ProcessChunksMaxConcurrency == 1
\* RetryFailedChunks: maxConcurrency
RetryFailedChunksMaxConcurrency == 1
\* timeout: cdk.Duration.minutes(30)
TimeoutMinutes == 30

\* --------------------------------------------------------------- responses
\* A response that carries no statusCode field (isPresent(...) is false on it).
NoStatus == 0
\* Status codes a processChunk response carries in the model.
StatusCodes == {200, 404, 429, 500}
\* processChunk responses: a status code and whether the payload carries a
\* rate-limit error marker.
TaskResponses ==
    { [statusCode |-> 200, rateLimit |-> FALSE],
      [statusCode |-> 200, rateLimit |-> TRUE],
      [statusCode |-> 404, rateLimit |-> FALSE],
      [statusCode |-> 429, rateLimit |-> TRUE],
      [statusCode |-> 500, rateLimit |-> FALSE] }
\* Status codes of the postPrComment and sendSlackNotification responses.
PublishStatusCodes == {200, 500}
\* What the handleError response carries at $.statusCode.
HandleErrorStatusCodes == {200, 500, NoStatus}
\* Error classes of a failed invocation: an error raised by the function
\* (matched by States.TaskFailed) or a Lambda service exception (matched by the
\* retrier of retryOnServiceExceptions).
ErrorKinds == {"TaskFailed", "ServiceException"}

\* ------------------------------------------------------------------ states
\* How an execution ends: in the Succeed state, in the Fail state, by running
\* off a state that has no successor (End), by an error no catcher takes
\* (Aborted), or by the state machine's timeout.
Terminal == {"Success", "Failed", "Ended", "Aborted", "TimedOut"}
\* The Wait states of the state graph: the construct declares none.
WaitStates == {}
\* States of a Parallel branch
BranchTask == <<"PostPRComment", "SendSlackNotification">>
BranchChoice == <<"CheckPRCommentStatus", "CheckSlackNotificationStatus">>
BranchPass == <<"PRCommentSuccess", "SlackNotificationSuccess">>
Branches == {1, 2}

VARIABLES
    pc,               \* the state the execution is in, or how it ended
    tf, sv,           \* retries used by the current top-level task, per retrier
    totalFiles,       \* $.body.total_files of the Split response (-1: none)
    chunks,           \* number of entries of $.body.chunks
    items,            \* iterations of the running Map state
    chunkResults,     \* $.chunkResults
    failed_chunks,    \* $.failed_chunks
    successful_chunks,\* $.successful_chunks
    retryResults,     \* $.retryResults
    firstPass,        \* history: the iteration outputs of ProcessChunks
    branch,           \* the two branches of PostResults
    postResults,      \* $.postResults
    route,            \* history: the route ChunkSizeCheck took
    retryFailed,      \* history: a chunk failed in both passes
    entered,          \* history: states entered so far
    heEntries,        \* history: number of times HandleError was entered
    unrecovered,      \* history: states whose error outlived their retriers
    returned,         \* history: status returned by each publication task
    now               \* minutes since the execution started

vars == <<pc, tf, sv, totalFiles, chunks, items, chunkResults, failed_chunks,
          successful_chunks, retryResults, firstPass, branch, postResults, route, retryFailed,
          entered, heEntries, unrecovered, returned, now>>

dataVars == <<totalFiles, chunks, items, chunkResults, failed_chunks,
              successful_chunks, retryResults, firstPass, branch, postResults,
              route, retryFailed, returned>>

IdleBranch == [st |-> "idle", tf |-> 0, sv |-> 0, out |-> NoStatus, he |-> NoStatus]

Init ==
    /\ pc = "InitialProcessing"
    /\ tf = 0 /\ sv = 0
    /\ totalFiles = -1
    /\ chunks = 0
    /\ items = << >>
    /\ chunkResults = << >>
    /\ failed_chunks = << >>
    /\ successful_chunks = << >>
    /\ retryResults = << >>
    /\ firstPass = << >>
    /\ branch = [b \in Branches |-> IdleBranch]
    /\ postResults = << >>
    /\ route = "none"
    /\ retryFailed = FALSE
    /\ entered = {"InitialProcessing"}
    /\ heEntries = 0
    /\ unrecovered = {}
    /\ returned = [b \in Branches |-> NoStatus]
    /\ now = 0

\* ------------------------------------------------------------------- clock
\* A state is run only while the timeout of the execution has not expired.
\* Running it does not advance the clock: Tick does.
InTime ==
    /\ now < TimeoutMinutes
    /\ now' = now

\* ---------------------------------------------------------------- retriers
\* MaxAttempts with the budget of processChunk given to every task.
MaxAttemptsAllProcessChunk(state) == ProcessChunkMaxAttempts

\* Retry budget of a task's States.TaskFailed retrier.
MaxAttempts(state) ==
    IF state = "ProcessChunk" THEN ProcessChunkMaxAttempts ELSE DefaultMaxAttempts

\* Whether the retrier matching an error of class kind still has attempts
\* left, given the retries t and s its two retriers have used.
MayRetry(state, kind, t, s) ==
    \/ kind = "ServiceException" /\ s < ServiceMaxAttempts
    \/ kind = "TaskFailed" /\ t < MaxAttempts(state)

\* HasCatch with the catcher of initialProcessing left out.
HasCatchNoInit(state) ==
    state \in {"SplitPRIntoChunks", "ProcessChunks", "AggregateResults",
               "PostResults"}

\* States that carry addCatch(handleError).
HasCatch(state) ==
    state \in {"InitialProcessing", "SplitPRIntoChunks", "ProcessChunks",
               "AggregateResults", "PostResults"}

\* Where an error leaves a top-level state once no retrier takes it.
CatchTarget(state) == IF HasCatch(state) THEN "HandleError" ELSE "Aborted"

\* Entering a top-level state s, and with it the states in also.
EnterWith(s, also) ==
    /\ pc' = s
    /\ tf' = 0 /\ sv' = 0
    /\ entered' = entered \cup {s} \cup also
    /\ heEntries' = IF s = "HandleError" THEN heEntries + 1 ELSE heEntries

Enter(s) == EnterWith(s, {})

\* An error of class kind raised by the top-level task the execution is in.
TaskError(state, kind) ==
    IF MayRetry(state, kind, tf, sv)
    THEN /\ tf' = IF kind = "TaskFailed" THEN tf + 1 ELSE tf
         /\ sv' = IF kind = "ServiceException" THEN sv + 1 ELSE sv
         /\ UNCHANGED <<pc, entered, heEntries, unrecovered>>
    ELSE /\ unrecovered' = unrecovered \cup {state}
         /\ Enter(CatchTarget(state))

\* ------------------------------------------------------------- the pipeline
InitialProcessing ==
    /\ InTime
    /\ pc = "InitialProcessing"
    /\ \/ Enter("SplitPRIntoChunks") /\ UNCHANGED unrecovered
       \/ \E kind \in ErrorKinds : TaskError("InitialProcessing", kind)
    /\ UNCHANGED dataVars

SplitPRIntoChunks ==
    /\ InTime
    /\ pc = "SplitPRIntoChunks"
    /\ \/ /\ \E n \in 0..MaxFiles, c \in 1..MaxChunks :
                totalFiles' = n /\ chunks' = c
          /\ Enter("ChunkSizeCheck")
          /\ UNCHANGED unrecovered
       \/ /\ \E kind \in ErrorKinds : TaskError("SplitPRIntoChunks", kind)
          /\ UNCHANGED <<totalFiles, chunks>>
    /\ UNCHANGED <<items, chunkResults, failed_chunks, successful_chunks,
                   retryResults, firstPass, branch, postResults, route, retryFailed, returned>>

\* The iterations a Map state holds for n items, none started yet.
NoItem == [item |-> 0, statusCode |-> NoStatus, rateLimit |-> FALSE]
NoInput == [body |-> [total_files |-> -1, chunks |-> 0]]
NewItems(n) ==
    [i \in 1..n |-> [st |-> "pending", tf |-> 0, sv |-> 0, input |-> NoInput,
                     res |-> NoItem]]

\* ChunkSizeCondition with numberGreaterThanEquals in place of numberGreaterThan.
ChunkSizeConditionGte(n) == n >= ChunkSizeThreshold

\* numberGreaterThan('$.body.total_files', 5)
ChunkSizeCondition(n) == n > ChunkSizeThreshold

ChunkSizeCheck ==
    /\ InTime
    /\ pc = "ChunkSizeCheck"
    /\ IF ChunkSizeCondition(totalFiles)
       THEN /\ Enter("ProcessChunks")
            /\ route' = "chunk"
            /\ items' = NewItems(chunks)
       ELSE /\ Enter("ProcessSingleChunk")
            /\ route' = "single"
            /\ UNCHANGED items
    /\ UNCHANGED <<totalFiles, chunks, chunkResults, failed_chunks,
                   successful_chunks, retryResults, firstPass, branch,
                   postResults, retryFailed, unrecovered, returned>>

\* initialProcessing.next(splitPr).next(chunkSizeCheck).afterwards()
\*     .next(aggregateResults).next(postResults).next(checkFinalStatus):
\* the state that follows the end of either route of ChunkSizeCheck
\* (ProcessSingleChunk, RetryFailedChunks, NoFailedChunks).  afterwards() is
\* the join of a Choice's routes; the source calls it on the chain that ends
\* in chunkSizeCheck, where the older revision of the construct calls
\* chunkSizeCheck.afterwards().  The library accepts neither this call nor
\* new stepfunctions.Chain().start(...) of the branches of PostResults: the
\* state graph is the one these expressions name, each read as the
\* transitions it states.
AfterChunkSizeCheck == "AggregateResults"

\* The response replaces the payload (no resultPath): $.body is gone.
ProcessSingleChunk ==
    /\ InTime
    /\ pc = "ProcessSingleChunk"
    /\ \/ /\ Enter(AfterChunkSizeCheck)
          /\ totalFiles' = -1 /\ chunks' = 0
          /\ UNCHANGED unrecovered
       \/ /\ \E kind \in ErrorKinds : TaskError("ProcessSingleChunk", kind)
          /\ UNCHANGED <<totalFiles, chunks>>
    /\ UNCHANGED <<items, chunkResults, failed_chunks, successful_chunks,
                   retryResults, firstPass, branch, postResults, route, retryFailed, returned>>

\* ------------------------------------------------------------ Map states
\* MaxConcurrency with maxConcurrency left out of the Map states (no limit).
MaxConcurrencyUnbounded(map) == Len(items)

\* maxConcurrency of a Map state.
MaxConcurrency(map) ==
    IF map = "ProcessChunks" THEN ProcessChunksMaxConcurrency
    ELSE RetryFailedChunksMaxConcurrency

Running == {i \in DOMAIN items : items[i].st = "running"}
Pending == {i \in DOMAIN items : items[i].st = "pending"}

\* A Map state starts its iterations in the order of its items, and keeps at
\* most maxConcurrency of them running.
MayDispatch(map, i) ==
    /\ i \in Pending
    /\ \A j \in Pending : i <= j
    /\ Cardinality(Running) < MaxConcurrency(map)

\* The WorkItem an iteration stands for: the i-th entry of $.chunks in
\* ProcessChunks (itemsPath '$.chunks'), and in RetryFailedChunks the item
\* behind the i-th entry of $.failed_chunks (itemsPath '$.failed_chunks').
ItemOf(map, i) ==
    IF map = "ProcessChunks" THEN i ELSE failed_chunks[i].item

\* inputPath '$.body': the input of the ProcessChunks Map state.
MapInput == [total_files |-> totalFiles, chunks |-> chunks]

\* itemSelector: { 'body.$': '$' }.  In an itemSelector '$' is the input of
\* the Map state, not the item: the selector does not use the item i, and
\* every iteration is given the whole of $.body.
ItemSelector(mapInput, i) == [body |-> mapInput]

\* The input of iteration i.  ProcessChunks selects it with its itemSelector;
\* RetryFailedChunks has no itemSelector, so that the input is the element of
\* $.failed_chunks itself, a result of the first pass.
IterationInput(map, i) ==
    IF map = "ProcessChunks" THEN ItemSelector(MapInput, i) ELSE failed_chunks[i]

\* The Map state's result: the iteration outputs in the order of the items.
MapOutput == [i \in DOMAIN items |-> items[i].res]

\* A Map state starts the iteration of its next item.
Dispatch(map) ==
    /\ InTime
    /\ pc = map
    /\ \E i \in DOMAIN items :
          /\ MayDispatch(map, i)
          /\ items' = [items EXCEPT ![i].st = "running",
                                    ![i].input = IterationInput(map, i)]
    /\ entered' = entered \cup {"ProcessChunk"}
    /\ UNCHANGED <<pc, tf, sv, totalFiles, chunks, chunkResults, failed_chunks,
                   successful_chunks, retryResults, firstPass, branch,
                   postResults, route, retryFailed, heEntries, unrecovered, returned>>

\* The ProcessChunk task of a running iteration returns or raises an error.
\* An error that outlives the task's retriers fails the Map state.
ProcessChunk(map) ==
    /\ InTime
    /\ pc = map
    /\ \E i \in Running :
          \/ /\ \E r \in TaskResponses :
                   items' = [items EXCEPT
                               ![i].st = "done", ![i].tf = 0, ![i].sv = 0,
                               ![i].res = [item |-> ItemOf(map, i),
                                           statusCode |-> r.statusCode,
                                           rateLimit |-> r.rateLimit]]
             /\ UNCHANGED <<pc, tf, sv, entered, heEntries, unrecovered>>
          \/ \E kind \in ErrorKinds :
                IF MayRetry("ProcessChunk", kind, items[i].tf, items[i].sv)
                THEN /\ items' = [items EXCEPT
                                    ![i].tf = IF kind = "TaskFailed" THEN @ + 1 ELSE @,
                                    ![i].sv = IF kind = "ServiceException" THEN @ + 1 ELSE @]
                     /\ UNCHANGED <<pc, tf, sv, entered, heEntries, unrecovered>>
                ELSE /\ items' = << >>
                     /\ unrecovered' = unrecovered \cup {"ProcessChunk", map}
                     /\ Enter(CatchTarget(map))
    /\ UNCHANGED <<totalFiles, chunks, chunkResults, failed_chunks,
                   successful_chunks, retryResults, firstPass, branch,
                   postResults, route, retryFailed, returned>>

\* AllDone with the iterations not yet started left out of account.
AllDoneNoneRunning == Running = {}

\* A Map state is left when every one of its iterations has ended.
AllDone == \A i \in DOMAIN items : items[i].st = "done"

\* ProcessChunks: every iteration has ended.  The result of the Map state is
\* the array of the iteration outputs, to which its resultSelector
\* { 'results.$': '$.results', 'failed.$': '$.failed' } is applied before
\* resultPath '$.chunkResults'.  An array has no field results or failed: the
\* paths do not resolve, which is the error States.Runtime.  No retrier and
\* no catcher takes that error (States.ALL does not match it), so the
\* execution fails: $.chunkResults is never written and FilterFailedChunks
\* is never entered.  firstPass keeps the array the Map state had produced.
ProcessChunks ==
    /\ InTime
    /\ pc = "ProcessChunks"
    /\ AllDone
    /\ firstPass' = MapOutput
    /\ items' = << >>
    /\ Enter("Aborted")
    /\ UNCHANGED <<totalFiles, chunks, chunkResults, failed_chunks,
                   successful_chunks, retryResults, branch, postResults, route,
                   retryFailed, unrecovered, returned>>

\* ------------------------------------------- the states after ProcessChunks
\* FilterFailedChunks, CheckFailedChunks, RetryFailedChunks and NoFailedChunks
\* are the states the definition body chains after ProcessChunks.  They are
\* given here as the source declares them.  No execution enters them, since
\* ProcessChunks ends every execution that reaches it: they are not steps of
\* Next.

\* '$.chunkResults[?(@.statusCode != 200)]'
FailedFilter(r) == r.statusCode # StatusOK
\* '$.chunkResults[?(@.statusCode == 200)]'
SuccessfulFilter(r) == r.statusCode = StatusOK

\* The Pass state's parameters replace the payload: $.body and
\* $.chunkResults are gone.
FilterFailedChunks ==
    /\ InTime
    /\ pc = "FilterFailedChunks"
    /\ failed_chunks' = SelectSeq(chunkResults, FailedFilter)
    /\ successful_chunks' = SelectSeq(chunkResults, SuccessfulFilter)
    /\ chunkResults' = << >>
    /\ totalFiles' = -1 /\ chunks' = 0
    /\ Enter("CheckFailedChunks")
    /\ UNCHANGED <<items, retryResults, firstPass, branch, postResults, route, retryFailed,
                   unrecovered, returned>>

\* isPresent('$.failed_chunks[0]')
FailedChunksPresent(failed) == Len(failed) >= 1

CheckFailedChunks ==
    /\ InTime
    /\ pc = "CheckFailedChunks"
    /\ IF FailedChunksPresent(failed_chunks)
       THEN /\ Enter("RetryFailedChunks")
            /\ items' = NewItems(Len(failed_chunks))
       ELSE /\ Enter("NoFailedChunks")
            /\ UNCHANGED items
    /\ UNCHANGED <<totalFiles, chunks, chunkResults, failed_chunks,
                   successful_chunks, retryResults, firstPass, branch,
                   postResults, route, retryFailed, unrecovered, returned>>

\* Whether an item of the retry pass that had returned 429 or 500 in the first
\* pass returned 500 again.
FailedTwice(failed, retried) ==
    \E j \in DOMAIN retried :
        /\ failed[j].statusCode \in {429, 500}
        /\ retried[j].statusCode = 500

\* RetryFailedChunks: every iteration has ended; resultPath '$.retryResults'.
RetryFailedChunks ==
    /\ InTime
    /\ pc = "RetryFailedChunks"
    /\ AllDone
    /\ retryResults' = MapOutput
    /\ retryFailed' = FailedTwice(failed_chunks, MapOutput)
    /\ items' = << >>
    /\ Enter(AfterChunkSizeCheck)
    /\ UNCHANGED <<totalFiles, chunks, chunkResults, failed_chunks,
                   successful_chunks, firstPass, branch, postResults, route,
                   unrecovered, returned>>

NoFailedChunks ==
    /\ InTime
    /\ pc = "NoFailedChunks"
    /\ Enter(AfterChunkSizeCheck)
    /\ UNCHANGED <<unrecovered>>
    /\ UNCHANGED dataVars

\* ------------------------------------------------------------- aggregation
\* The payload AggregateResults is invoked with on the chunk path: the two
\* fields FilterFailedChunks left and, after RetryFailedChunks, its resultPath.
AggregateInput ==
    IF "RetryFailedChunks" \in entered
    THEN [failed_chunks |-> failed_chunks,
          successful_chunks |-> successful_chunks,
          retryResults |-> retryResults]
    ELSE [failed_chunks |-> failed_chunks,
          successful_chunks |-> successful_chunks]

\* The response replaces the payload.  PostResults starts both its branches.
AggregateResults ==
    /\ InTime
    /\ pc = "AggregateResults"
    /\ \/ /\ EnterWith("PostResults", {BranchTask[1], BranchTask[2]})
          /\ failed_chunks' = << >>
          /\ successful_chunks' = << >>
          /\ retryResults' = << >>
          /\ firstPass' = << >>
          /\ branch' = [b \in Branches |-> [IdleBranch EXCEPT !.st = "task"]]
          /\ UNCHANGED unrecovered
       \/ /\ \E kind \in ErrorKinds : TaskError("AggregateResults", kind)
          /\ UNCHANGED <<failed_chunks, successful_chunks, retryResults,
                         firstPass, branch>>
    /\ UNCHANGED <<totalFiles, chunks, items, chunkResults, postResults, route, retryFailed,
                   returned>>

\* ------------------------------------------------------------- publication
\* The error of a branch fails the Parallel state: its branches stop, and the
\* error leaves PostResults by its catcher.
BranchFails(state) ==
    /\ unrecovered' = unrecovered \cup {state, "PostResults"}
    /\ branch' = [b \in Branches |-> IdleBranch]
    /\ Enter(CatchTarget("PostResults"))

\* An error of class kind raised by the task branch b is in.
BranchError(b, state, kind) ==
    IF MayRetry(state, kind, branch[b].tf, branch[b].sv)
    THEN /\ branch' = [branch EXCEPT
                         ![b].tf = IF kind = "TaskFailed" THEN @ + 1 ELSE @,
                         ![b].sv = IF kind = "ServiceException" THEN @ + 1 ELSE @]
         /\ UNCHANGED <<pc, tf, sv, entered, heEntries, unrecovered>>
    ELSE BranchFails(state)

\* postPrComment / sendSlackNotification: the first state of branch b.
PublishTask(b) ==
    /\ InTime
    /\ pc = "PostResults"
    /\ branch[b].st = "task"
    /\ \/ /\ \E code \in PublishStatusCodes :
                /\ branch' = [branch EXCEPT ![b] = [st |-> "check", tf |-> 0,
                                                    sv |-> 0, out |-> code,
                                                    he |-> NoStatus]]
                /\ returned' = [returned EXCEPT ![b] = code]
          /\ entered' = entered \cup {BranchChoice[b]}
          /\ UNCHANGED <<pc, tf, sv, heEntries, unrecovered>>
       \/ /\ \E kind \in ErrorKinds : BranchError(b, BranchTask[b], kind)
          /\ UNCHANGED returned
    /\ UNCHANGED <<totalFiles, chunks, items, chunkResults, failed_chunks,
                   successful_chunks, retryResults, firstPass, postResults, route, retryFailed>>

\* numberEquals('$.statusCode', 200)
StatusCondition(code) == code = StatusOK

\* CheckPRCommentStatus / CheckSlackNotificationStatus:
\* .when(numberEquals('$.statusCode', 200), Pass).otherwise(handleError)
CheckPublishStatus(b) ==
    /\ InTime
    /\ pc = "PostResults"
    /\ branch[b].st = "check"
    /\ IF StatusCondition(branch[b].out)
       THEN /\ branch' = [branch EXCEPT ![b].st = "pass"]
            /\ entered' = entered \cup {BranchPass[b]}
            /\ UNCHANGED heEntries
       ELSE /\ branch' = [branch EXCEPT ![b].st = "handleError"]
            /\ entered' = entered \cup {"HandleError"}
            /\ heEntries' = heEntries + 1
    /\ UNCHANGED <<pc, tf, sv, totalFiles, chunks, items, chunkResults,
                   failed_chunks, successful_chunks, retryResults, firstPass,
                   postResults, route, retryFailed, unrecovered, returned>>

\* PRCommentSuccess / SlackNotificationSuccess: the Pass state ends the branch
\* with the task's response as the branch's output.
PublishSuccess(b) ==
    /\ InTime
    /\ pc = "PostResults"
    /\ branch[b].st = "pass"
    /\ branch' = [branch EXCEPT ![b].st = "done"]
    /\ UNCHANGED <<pc, tf, sv, totalFiles, chunks, items, chunkResults,
                   failed_chunks, successful_chunks, retryResults, firstPass,
                   postResults, route, retryFailed, entered, heEntries, unrecovered, returned>>

\* HandleErrorOutput with the response discarded and the input passed on.
HandleErrorOutputKeepsInput(taskOut, response) == taskOut

\* handleError sets no resultPath: its response replaces the payload it was
\* given, the response taskOut of the branch's task.
HandleErrorOutput(taskOut, response) == response

\* handleError as the last state of branch b: its response is the branch's
\* output (he: history, the status handleError returned).
BranchHandleError(b) ==
    /\ InTime
    /\ pc = "PostResults"
    /\ branch[b].st = "handleError"
    /\ \/ /\ \E code \in HandleErrorStatusCodes :
                branch' = [branch EXCEPT ![b] =
                              [st |-> "done", tf |-> 0, sv |-> 0,
                               out |-> HandleErrorOutput(branch[b].out, code),
                               he |-> code]]
          /\ UNCHANGED <<pc, tf, sv, entered, heEntries, unrecovered>>
       \/ \E kind \in ErrorKinds : BranchError(b, "HandleError", kind)
    /\ UNCHANGED <<totalFiles, chunks, items, chunkResults, failed_chunks,
                   successful_chunks, retryResults, firstPass, postResults,
                   route, retryFailed, returned>>

PostPRComment == PublishTask(1)
CheckPRCommentStatus == CheckPublishStatus(1)
PRCommentSuccess == PublishSuccess(1)
SendSlackNotification == PublishTask(2)
CheckSlackNotificationStatus == CheckPublishStatus(2)
SlackNotificationSuccess == PublishSuccess(2)

\* BranchesDone with one ended branch enough.
BranchesDoneAny == \E b \in Branches : branch[b].st = "done"

\* A Parallel state is left when every one of its branches has ended.
BranchesDone == \A b \in Branches : branch[b].st = "done"

\* PostResults: both branches have ended; resultPath '$.postResults' holds the
\* branches' outputs in the order of the branches.
PostResults ==
    /\ InTime
    /\ pc = "PostResults"
    /\ BranchesDone
    /\ postResults' = <<branch[1].out, branch[2].out>>
    /\ branch' = [b \in Branches |-> IdleBranch]
    /\ Enter("CheckFinalStatus")
    /\ UNCHANGED <<totalFiles, chunks, items, chunkResults, failed_chunks,
                   successful_chunks, retryResults, firstPass, route, retryFailed,
                   unrecovered, returned>>

\* and(isPresent('$.postResults[0].statusCode'),
\*     isPresent('$.postResults[1].statusCode'),
\*     numberEquals('$.postResults[0].statusCode', 200),
\*     numberEquals('$.postResults[1].statusCode', 200))
FinalStatusCondition(results) ==
    /\ results[1] # NoStatus
    /\ results[2] # NoStatus
    /\ results[1] = StatusOK
    /\ results[2] = StatusOK

CheckFinalStatus ==
    /\ InTime
    /\ pc = "CheckFinalStatus"
    /\ IF FinalStatusCondition(postResults)
       THEN Enter("Success")
       ELSE Enter("Failed")
    /\ UNCHANGED unrecovered
    /\ UNCHANGED dataVars

\* ---------------------------------------------------------- error handling
\* The state after HandleError: it is given no successor, so the execution
\* ends with it.
AfterHandleError == "Ended"

\* handleError as reached by a catcher.  It carries no catcher of its own.
\* Its response replaces the payload (no resultPath): the fields of the
\* payload are gone.
HandleError ==
    /\ InTime
    /\ pc = "HandleError"
    /\ \/ /\ Enter(AfterHandleError)
          /\ totalFiles' = -1 /\ chunks' = 0
          /\ chunkResults' = << >>
          /\ failed_chunks' = << >>
          /\ successful_chunks' = << >>
          /\ retryResults' = << >>
          /\ postResults' = << >>
          /\ UNCHANGED unrecovered
       \/ /\ \E kind \in ErrorKinds : TaskError("HandleError", kind)
          /\ UNCHANGED <<totalFiles, chunks, chunkResults, failed_chunks,
                         successful_chunks, retryResults, postResults>>
    /\ UNCHANGED <<items, firstPass, branch, route, retryFailed, returned>>

\* Time passes while the execution is in a state it has not ended in.
Tick ==
    /\ pc \notin Terminal
    /\ now < TimeoutMinutes
    /\ now' = now + ClockStep
    /\ UNCHANGED <<pc, tf, sv, entered, heEntries, unrecovered>>
    /\ UNCHANGED dataVars

\* Timeout that leaves an execution alone while PostResults runs its branches.
TimeoutNotInParallel ==
    /\ pc \notin Terminal \cup {"PostResults"}
    /\ now >= TimeoutMinutes
    /\ pc' = "TimedOut"
    /\ UNCHANGED <<tf, sv, entered, heEntries, unrecovered, now>>
    /\ UNCHANGED dataVars

\* timeout: cdk.Duration.minutes(30).  An execution that has not ended when
\* the timeout expires is stopped with the error States.Timeout: it enters
\* no further state, the Fail state Failed included, and what its branches
\* or iterations had in flight is abandoned.
Timeout ==
    /\ pc \notin Terminal
    /\ now >= TimeoutMinutes
    /\ pc' = "TimedOut"
    /\ UNCHANGED <<tf, sv, entered, heEntries, unrecovered, now>>
    /\ UNCHANGED dataVars

Next ==
    \/ InitialProcessing
    \/ SplitPRIntoChunks
    \/ ChunkSizeCheck
    \/ ProcessSingleChunk
    \/ Dispatch("ProcessChunks")
    \/ ProcessChunk("ProcessChunks")
    \/ ProcessChunks
    \/ AggregateResults
    \/ PostPRComment
    \/ CheckPRCommentStatus
    \/ PRCommentSuccess
    \/ SendSlackNotification
    \/ CheckSlackNotificationStatus
    \/ SlackNotificationSuccess
    \/ \E b \in Branches : BranchHandleError(b)
    \/ PostResults
    \/ CheckFinalStatus
    \/ HandleError
    \/ Tick
    \/ Timeout

Spec == Init /\ [][Next]_vars

\* The service runs every state it has entered, each invoked function
\* returns or raises an error, time passes and the timeout that has expired
\* is applied: a step that stays possible is taken.
FairSpec == Spec /\ WF_vars(Next)

\* ================================================================== claims
\* The execution has ended otherwise than by the timeout.
Ended == pc \in Terminal \ {"TimedOut"}
\* An error left a state by its catcher to HandleError.
Caught == \E s \in unrecovered : HasCatch(s)
InSeq(r, q) == \E j \in DOMAIN q : q[j] = r
PublishRunning == {b \in Branches : branch[b].st \in {"task", "handleError"}}

\* C1 (as claimed): an execution ends in Success if and only if postComment
\* and sendNotification both returned status 200; with a non-200 status of
\* either it does not end in Success.
C1_SuccessIffBothReturned200 ==
    Ended =>
        ((pc = "Success") <=> (returned[1] = StatusOK /\ returned[2] = StatusOK))

\* C2 (as claimed): once a catcher has taken an error to HandleError, the
\* execution ends in the Failed state and in no other way.
C2_CaughtEndsInFailed ==
    (Caught /\ Ended) => pc = "Failed"

\* C3 (as claimed): HandleError is entered at most once in an execution.
C3_HandleErrorAtMostOnce ==
    heEntries <= 1

\* C4 (as claimed): an error that outlives the retriers of any state of the
\* pipeline takes the execution to HandleError.
C4_EveryErrorReachesHandleError ==
    unrecovered # {} => heEntries >= 1

\* C5: when initialProcessing fails beyond its retriers, HandleError is
\* entered and none of splitPR, processChunk, aggregateResults, postComment
\* and sendNotification is ever started.
C5_InitFailureStopsPipeline ==
    "InitialProcessing" \in unrecovered =>
        /\ heEntries >= 1
        /\ entered \cap {"SplitPRIntoChunks", "ProcessSingleChunk", "ProcessChunks",
                         "ProcessChunk", "RetryFailedChunks", "AggregateResults",
                         "PostResults", "PostPRComment", "SendSlackNotification"}
              = {}
C5_Witness ==
    /\ "InitialProcessing" \in unrecovered
    /\ pc = "Ended"

\* C6: ChunkSizeCheck goes to ProcessChunks exactly when total_files > 5 and
\* to ProcessSingleChunk otherwise (5 included); an execution takes one route
\* only, and the single route runs one ProcessSingleChunk task and none of the
\* Map states, FilterFailedChunks and CheckFailedChunks.
C6_SizeCheckRoutes ==
    /\ pc = "ProcessChunks" => totalFiles > 5
    /\ pc = "ProcessSingleChunk" => totalFiles <= 5
    /\ route = "chunk" <=> "ProcessChunks" \in entered
    /\ route = "single" <=> "ProcessSingleChunk" \in entered
    /\ route = "none" <=>
          entered \subseteq {"InitialProcessing", "SplitPRIntoChunks",
                             "ChunkSizeCheck", "HandleError", "Ended", "Aborted"}
    /\ route = "single" =>
          entered \cap {"ProcessChunks", "ProcessChunk", "FilterFailedChunks",
                        "CheckFailedChunks", "RetryFailedChunks", "NoFailedChunks"}
             = {}
C6_Witness ==
    /\ pc = "ProcessSingleChunk"
    /\ totalFiles = 5

\* Every iteration of the running Map state has returned.
IterationsReturned == \A i \in DOMAIN items : items[i].st = "done"
\* ProcessChunks has produced the array of its iteration outputs.
FirstPassReturned == firstPass # << >>
\* A result of the first pass that is not a success.
AnyFailed == \E i \in DOMAIN firstPass : FailedFilter(firstPass[i])
\* The step that leaves ProcessChunks with its results hands them on to
\* FilterFailedChunks: what every claim about classification, the retry pass
\* and the aggregation of the chunk route relies on.
FirstPassIsClassified ==
    (pc = "ProcessChunks" /\ IterationsReturned /\ pc' \notin {pc, "TimedOut"})
        => pc' = "FilterFailedChunks"

\* C7 (as claimed): when every iteration of ProcessChunks has returned, the
\* state yields $.chunkResults with one result per WorkItem of $.chunks, the
\* i-th being that of the i-th WorkItem.
C7_OneResultPerWorkItem ==
    [][(pc = "ProcessChunks" /\ IterationsReturned /\ pc' \notin {pc, "TimedOut"})
          => /\ Len(chunkResults') = chunks
             /\ \A i \in DOMAIN chunkResults' : chunkResults'[i].item = i]_vars

C9_FailedIffRateLimitOr5xx ==
    /\ [][FirstPassIsClassified]_vars
    /\ [](pc = "CheckFailedChunks" =>
             \A i \in DOMAIN firstPass :
                 LET r == firstPass[i] IN
                 /\ InSeq(r, failed_chunks)
                       <=> (r.statusCode \in {429, 500} \/ r.rateLimit)
                 /\ InSeq(r, successful_chunks)
                       <=> ~(r.statusCode \in {429, 500} \/ r.rateLimit))

\* C10 (as claimed): the results of the first pass are classified, and
\* failed_chunks and successful_chunks partition them: each result is in
\* exactly one of the two, once, and each of the two keeps the first-pass
\* order.
C10_ClassificationPartitions ==
    /\ [][FirstPassIsClassified]_vars
    /\ [](pc = "CheckFailedChunks" =>
             /\ Len(failed_chunks) + Len(successful_chunks) = Len(firstPass)
             /\ \A i \in DOMAIN firstPass :
                   InSeq(firstPass[i], failed_chunks)
                      <=> ~InSeq(firstPass[i], successful_chunks)
             /\ \A j \in DOMAIN failed_chunks : InSeq(failed_chunks[j], firstPass)
             /\ \A j \in DOMAIN successful_chunks :
                   InSeq(successful_chunks[j], firstPass)
             /\ \A j, k \in DOMAIN failed_chunks :
                   j < k => failed_chunks[j].item < failed_chunks[k].item
             /\ \A j, k \in DOMAIN successful_chunks :
                   j < k => successful_chunks[j].item < successful_chunks[k].item)

\* C11 (as claimed): an execution whose first pass returned a result that is
\* not a success has run RetryFailedChunks by its end, and one whose first
\* pass returned successes only has not; RetryFailedChunks is never entered
\* twice, and it is followed by AggregateResults.
C11_RetryPassExactlyOnce ==
    /\ [](/\ (Ended /\ FirstPassReturned) =>
                /\ AnyFailed <=> "RetryFailedChunks" \in entered
                /\ ~AnyFailed <=> "NoFailedChunks" \in entered
          /\ ~({"RetryFailedChunks", "NoFailedChunks"} \subseteq entered))
    /\ [][/\ (pc' = "RetryFailedChunks" /\ pc # "RetryFailedChunks")
                => "RetryFailedChunks" \notin entered
          /\ (pc = "RetryFailedChunks" /\ pc' \notin {pc, "TimedOut", "Aborted"})
                => pc' = "AggregateResults"]_vars

\* C12 (as claimed): an execution whose first pass returned a result that is
\* not a success has, by its end, waited in a Wait state before the retry.
C12_RetryWaitsForDelay ==
    (Ended /\ FirstPassReturned /\ AnyFailed) => entered \cap WaitStates # {}

\* C13 (as claimed): on the chunk route the results of the first pass reach
\* AggregateResults, which is entered with one result per WorkItem:
\* |successful_chunks| + |retryResults| is the number of first-pass results,
\* |retryResults| = |failed_chunks|, and every WorkItem has its one result in
\* successful_chunks or in retryResults.
C13_OneEntryPerWorkItem ==
    /\ [][FirstPassIsClassified]_vars
    /\ []((pc = "AggregateResults" /\ route = "chunk") =>
             /\ Len(successful_chunks) + Len(retryResults) = Len(firstPass)
             /\ Len(retryResults) = Len(failed_chunks)
             /\ \A i \in DOMAIN firstPass :
                   Cardinality({j \in DOMAIN successful_chunks :
                                   successful_chunks[j].item = i})
                   + Cardinality({j \in DOMAIN retryResults :
                                     retryResults[j].item = i})
                   = 1)

\* C14 (as claimed): when one WorkItem's processChunk raises an error beyond
\* its retriers, the Map state does not fail and HandleError is not entered.
C14_ItemFailureDoesNotFailMap ==
    "ProcessChunk" \in unrecovered =>
        /\ unrecovered \cap {"ProcessChunks", "RetryFailedChunks"} = {}
        /\ heEntries = 0
        /\ pc # "Aborted"

\* C15 (as claimed): when a chunk returned 429 or 500 in the first pass and 500
\* again in the retry pass, the execution has still gone on to
\* AggregateResults, and its verdict follows from the statuses postComment and
\* sendNotification returned alone.
C15_VerdictFromPublicationOnly ==
    /\ []((Ended /\ FirstPassReturned /\ AnyFailed) =>
             {"RetryFailedChunks", "AggregateResults", "PostResults"} \subseteq entered)
    /\ []((retryFailed /\ pc \in {"Success", "Failed"}) =>
             ((pc = "Success") <=> (returned[1] = StatusOK /\ returned[2] = StatusOK)))

\* The tasks C16 is about.
RetriedTasks == {"InitialProcessing", "SplitPRIntoChunks", "AggregateResults"}

\* C16 (as claimed): Init, Split, Aggregate, postComment and sendNotification
\* are each retried at most 2 times, whatever the fault.
C16_AtMostTwoRetries ==
    /\ pc \in RetriedTasks => tf + sv <= 2
    /\ pc = "PostResults" =>
          \A b \in Branches :
              branch[b].st = "task" => branch[b].tf + branch[b].sv <= 2

\* C16 (amended): each of these tasks is retried at most 2 times on an error
\* of the function and at most 6 times on a Lambda service exception, the two
\* counted apart; its error goes to HandleError only when the retries of one
\* of the two are used up.
C16_RetryBudgets ==
    /\ [](/\ pc \in RetriedTasks => (tf <= 2 /\ sv <= 6)
          /\ pc = "PostResults" =>
                \A b \in Branches :
                    branch[b].st = "task" => (branch[b].tf <= 2 /\ branch[b].sv <= 6))
    /\ [][/\ (pc \in RetriedTasks /\ pc' = "HandleError") => (tf = 2 \/ sv = 6)
          /\ (pc = "PostResults" /\ pc' = "HandleError")
                => \E b \in Branches :
                      /\ branch[b].st \in {"task", "handleError"}
                      /\ branch[b].tf = 2 \/ branch[b].sv = 6]_vars
C16_Witness ==
    /\ pc = "PostResults"
    /\ {"InitialProcessing", "SplitPRIntoChunks", "AggregateResults"}
          \subseteq entered
    /\ branch[1].st = "task" /\ branch[1].tf = 2 /\ branch[1].sv = 6
    /\ branch[2].st = "task" /\ branch[2].tf = 2 /\ branch[2].sv = 6
\* An execution that has not ended when its 30 minutes have expired.
Expired == pc \notin Terminal /\ now >= TimeoutMinutes
\* The step starts no task, iteration or branch and completes none.
NothingStarted ==
    /\ entered' = entered
    /\ heEntries' = heEntries
    /\ items' = items
    /\ branch' = branch
    /\ returned' = returned

C18_FailedMeansNoComment ==
    pc = "Failed" => returned[1] # StatusOK
\* C19 (as claimed): on the chunk route the results of the first pass reach
\* AggregateResults, which is invoked with one sequence, the succeeded
\* first-pass results followed by the results of the retry pass, and with
\* neither of the two sets of the classification.
C19_SingleMergedSequence ==
    /\ [][FirstPassIsClassified]_vars
    /\ []((pc = "AggregateResults" /\ route = "chunk") =>
             /\ \E f \in DOMAIN AggregateInput :
                   /\ DOMAIN AggregateInput = {f}
                   /\ AggregateInput[f]
                         = SelectSeq(firstPass, SuccessfulFilter) \o retryResults
             /\ DOMAIN AggregateInput \cap {"failed_chunks", "successful_chunks"} = {})

\* C20 (as claimed): every first-pass result that is not a success is
\* dispatched again, once, and no other is; the iteration of RetryFailedChunks
\* is invoked with the input its WorkItem had in the first pass.
C20_RetryInputIsWorkItem ==
    /\ []((Ended /\ FirstPassReturned /\ AnyFailed) => "RetryFailedChunks" \in entered)
    /\ [](pc = "RetryFailedChunks" =>
             /\ Len(items) = Len(failed_chunks)
             /\ \A i \in DOMAIN items :
                   /\ FailedFilter(firstPass[failed_chunks[i].item])
                   /\ items[i].st # "pending" =>
                         DOMAIN items[i].input = DOMAIN ItemSelector(MapInput, i))

\* C21 (as claimed): once HandleError has been entered, no task of the
\* pipeline returns, starts an attempt or is entered any more, whatever the
\* order of the steps of the two branches of PostResults.
C21_NoPipelineAfterHandleError ==
    [][heEntries >= 1 =>
          /\ returned' = returned
          /\ items' = items
          /\ \A b \in Branches :
                branch[b].st = "task" =>
                    (branch'[b] = branch[b] \/ branch'[b] = IdleBranch)
          /\ pc' \in {pc, "HandleError", "CheckFinalStatus", "Success", "Failed",
                      "Ended", "Aborted", "TimedOut"}]_vars
\* C22: both branches of PostResults are started together; a status other
\* than 200 in one branch leaves the other branch as it is; CheckFinalStatus
\* is entered only from PostResults with both branches ended, each after its
\* task returned and its status check was made.
C22_FinalizeAfterBothBranches ==
    /\ [](pc \in {"CheckFinalStatus", "Success", "Failed"} =>
             \A b \in Branches :
                 /\ returned[b] # NoStatus
                 /\ BranchChoice[b] \in entered
                 /\ StatusCondition(returned[b]) => BranchPass[b] \in entered
                 /\ ~StatusCondition(returned[b]) => "HandleError" \in entered)
    /\ [][/\ (pc' = "PostResults" /\ pc # "PostResults")
                => \A b \in Branches : branch'[b].st = "task"
          /\ (pc' = "CheckFinalStatus" /\ pc # "CheckFinalStatus")
                => /\ pc = "PostResults"
                   /\ \A b \in Branches : branch[b].st = "done"
          /\ \A b \in Branches :
                (branch[b].st = "check" /\ branch'[b].st = "handleError")
                    => \A o \in Branches \ {b} : branch'[o] = branch[o]]_vars
C22_Witness ==
    /\ pc = "CheckFinalStatus"
    /\ returned[1] = 500
    /\ returned[2] = StatusOK
    /\ BranchPass[2] \in entered
\* C23: when PostResults is left, the entry of $.postResults of a branch whose
\* task returned a status other than 200 is the status handleError returned in
\* that branch (the task's own status for a branch whose task returned 200),
\* and CheckFinalStatus decides on these entries.
C23_BranchOutputIsHandleErrorOutput ==
    /\ [][(pc = "PostResults" /\ pc' = "CheckFinalStatus") =>
             \A b \in Branches :
                 IF StatusCondition(returned[b])
                 THEN postResults'[b] = returned[b]
                 ELSE postResults'[b] = branch[b].he]_vars
    /\ [](pc \in {"Success", "Failed"} =>
             ((pc = "Success") <=> FinalStatusCondition(postResults)))
C23_Witness ==
    /\ pc = "Success"
    /\ returned[1] = StatusOK
    /\ returned[2] = 500
    /\ postResults = <<StatusOK, StatusOK>>
\* C24: the tasks are entered in the order of the pipeline.  SplitPRIntoChunks
\* is entered only when InitialProcessing returns; chunk processing only after
\* SplitPRIntoChunks returned; a Map state produces its result only when each
\* of its iterations has ended; AggregateResults is entered only from the end of
\* chunk processing, with no iteration pending or running; and the two
\* publication tasks are started only when AggregateResults returns.
C24_PipelineOrder ==
    /\ [](/\ (Running # {} \/ Pending # {}) => pc \in {"ProcessChunks", "RetryFailedChunks", "TimedOut"}
          /\ pc \in {"ProcessSingleChunk", "ProcessChunks", "RetryFailedChunks"}
                => {"InitialProcessing", "SplitPRIntoChunks"} \subseteq entered
          /\ pc = "AggregateResults" =>
                /\ \/ route = "single" /\ "ProcessSingleChunk" \in entered
                   \/ route = "chunk" /\ {"ProcessChunks", "FilterFailedChunks"} \subseteq entered
                /\ Len(failed_chunks) >= 1 => Len(retryResults) = Len(failed_chunks)
          /\ PublishRunning # {} => "AggregateResults" \in entered \ unrecovered)
    /\ [][/\ (pc' = "SplitPRIntoChunks" /\ pc # pc') => pc = "InitialProcessing"
          /\ (pc' = "ChunkSizeCheck" /\ pc # pc') => pc = "SplitPRIntoChunks"
          /\ (pc' \in {"ProcessSingleChunk", "ProcessChunks"} /\ pc # pc')
                => pc = "ChunkSizeCheck"
          /\ (pc \in {"ProcessChunks", "RetryFailedChunks"}
              /\ (firstPass' # firstPass \/ retryResults' # retryResults))
                => \A i \in DOMAIN items : items[i].st = "done"
          /\ (pc' = "PostResults" /\ pc # pc') => pc = "AggregateResults"
          /\ (pc' = "AggregateResults" /\ pc # pc')
                => pc \in {"ProcessSingleChunk", "RetryFailedChunks", "NoFailedChunks"}
          /\ (\E b \in Branches : branch[b].st = "idle" /\ branch'[b].st = "task")
                => /\ pc = "AggregateResults"
                   /\ pc' = "PostResults"
                   /\ unrecovered' = unrecovered]_vars
C24_Witness ==
    /\ pc = "PostResults"
    /\ route = "single"
    /\ {"InitialProcessing", "SplitPRIntoChunks", "ProcessSingleChunk",
        "AggregateResults"} \subseteq entered
    /\ branch[1].st = "task"
    /\ branch[2].st = "task"
\* C25 (as claimed): every execution eventually reaches one of the terminal
\* states Success and Failed, whatever the tasks return or raise; the stop by
\* the timeout is counted with Failed.
C25_EveryExecutionEnds == <>(pc \in {"Success", "Failed", "TimedOut"})
====
